---- MODULE Spec2Model ----
(***************************************************************************)
(* A model of dyff's report post-processing (pkg/dyff/reports.go), of the  *)
(* YAML report writer (YAMLReport.WriteReport / consolidateDiff), of the   *)
(* "between" command with its writeReport exit-status gating, and of the   *)
(* OutputWriter that writes a file to standard output or in place.         *)
(***************************************************************************)
EXTENDS Integers, Sequences, FiniteSets, TLC

VARIABLES
    report,     \* the Report a call is made on / the command's `report` variable
    call,       \* library call last made on `report`: [op, args]
    result,     \* what that call returned: [panic, report]
    opts,       \* the command's reportOptions
    pc,         \* position of betweenCmd.RunE / YAMLReport.WriteReport
    compared,   \* the Report dyff.CompareInputFiles returned
    stages,     \* post-processing calls RunE has made so far, in order
    fileDiffs,  \* the map consolidateDiff returned
    out,        \* records written to os.Stdout
    writeErr,   \* what reportWriter.WriteReport returned
    outcome,    \* what RunE / WriteReport / WriteInplace / WriteToStdout returned
    outputWriter, \* the OutputWriter w
    fileBytes,  \* the bytes of the file `filename` names
    inputFile,  \* what ytbx.LoadFile returned: the documents still to be written
    buf         \* the bytes.Buffer behind bufWriter

sink == <<outputWriter, fileBytes, inputFile, buf>>

vars == <<report, call, result, opts, pc, compared, stages, fileDiffs, out, writeErr, outcome, sink>>

----------------------------------------------------------------------------
(* Bounds *)

MaxDiffs == 2       \* diffs in a report handed to a library call
MaxArgs == 2        \* strings in one variadic argument list
MaxDetails == 3     \* details, over all diffs, in a report handed to the YAML writer
MaxOptions == 2     \* post-processing options given to the between command
MaxDocuments == 2   \* documents in the file handed to the OutputWriter

----------------------------------------------------------------------------
(* Diff model: Kind, Detail, Path, Diff, Report *)

ADDITION == "+"
REMOVAL == "-"
MODIFICATION == "~"
ORDERCHANGE == "<>"
ZeroKind == "0"

NoValue == "nil"

Detail(kind, from, to) == [Kind |-> kind, From |-> from, To |-> to]

\* var deet Detail
ZeroDetail == Detail(ZeroKind, NoValue, NoValue)

Add(v) == Detail(ADDITION, NoValue, v)
Rem(v) == Detail(REMOVAL, v, NoValue)
Mod(a, b) == Detail(MODIFICATION, a, b)
Ord(a, b) == Detail(ORDERCHANGE, a, b)

\* *ytbx.Path: a nil pointer, or a path into the document `Root` whose
\* PathElements slice is nil or holds the elements
Path(root, elems) == [isNil |-> FALSE, Root |-> root, nilElems |-> FALSE, PathElements |-> elems]
RootPath(root) == [isNil |-> FALSE, Root |-> root, nilElems |-> TRUE, PathElements |-> <<>>]
NilPath == [isNil |-> TRUE, Root |-> "", nilElems |-> TRUE, PathElements |-> <<>>]

RECURSIVE JoinElements(_)
JoinElements(elems) ==
    IF elems = <<>> THEN "" ELSE "/" \o Head(elems) \o JoinElements(Tail(elems))

\* path.String(): the go-patch rendering of the elements
String(path) ==
    IF Len(path.PathElements) = 0 THEN "/" ELSE JoinElements(path.PathElements)

\* path.RootDescription(): the document the path belongs to
RootDescription(path) == path.Root

\* ytbx.ParsePathStringUnsafe(pathString): go-patch style and dot style both
\* parse into the same elements; a section with two "=" does not parse
ParsePathStringUnsafe(pathString) ==
    CASE pathString = "/"      -> [err |-> FALSE, path |-> RootPath("")]
      [] pathString = "/a"     -> [err |-> FALSE, path |-> Path("", <<"a">>)]
      [] pathString = "a"      -> [err |-> FALSE, path |-> Path("", <<"a">>)]
      [] pathString = "/a/b"   -> [err |-> FALSE, path |-> Path("", <<"a", "b">>)]
      [] pathString = "a.b"    -> [err |-> FALSE, path |-> Path("", <<"a", "b">>)]
      [] OTHER                 -> [err |-> TRUE, path |-> RootPath("")]

\* regexp.MustCompile(pattern) panics on a pattern that does not compile
Compiles(pattern) == pattern # "("

\* regexp.MatchString(s) for the patterns of the model
MatchString(pattern, s) ==
    CASE pattern = "^/a" -> s \in {"/a", "/a/b"}
      [] pattern = "b$"  -> s \in {"/a/b", "/b"}
      [] pattern = "^d"  -> s \in {"d1", "d2"}
      [] pattern = "2$"  -> s \in {"d2"}
      [] OTHER           -> FALSE

Diff(path, details) == [Path |-> path, Details |-> details]

Report(diffs) == [From |-> "from.yml", To |-> "to.yml", Diffs |-> diffs]

NoReport == [From |-> "", To |-> "", Diffs |-> <<>>]

----------------------------------------------------------------------------
(* pkg/dyff/reports.go *)

\* func (r Report) filter(hasPath func(*ytbx.Path) bool) (result Report)
\* (hasPath, a closure, is the function from each path to what it returns)
filter(r, hasPath) ==
    LET loop[i \in 0..Len(r.Diffs)] ==
            IF i = 0 THEN <<>>
            ELSE IF hasPath[r.Diffs[i].Path]
                 THEN Append(loop[i - 1], r.Diffs[i])
                 ELSE loop[i - 1]
    IN  [From |-> r.From, To |-> r.To, Diffs |-> loop[Len(r.Diffs)]]

\* the values of diff.Path that filter hands to hasPath
PathsOf(r) == {r.Diffs[i].Path : i \in 1..Len(r.Diffs)}

\* the condition without its `err == nil`
pathMatches_IgnoresErr(pathString, filterPath) ==
    LET parsed == ParsePathStringUnsafe(pathString)
    IN  /\ ~filterPath.isNil
        /\ String(parsed.path) = String(filterPath)

\* the condition of Filter's and Exclude's inner loop for one pathString
pathMatches(pathString, filterPath) ==
    LET parsed == ParsePathStringUnsafe(pathString)
    IN  /\ ~parsed.err
        /\ ~filterPath.isNil
        /\ String(parsed.path) = String(filterPath)

\* Filter without the early return for no arguments
Filter_NoEarlyReturn(r, paths) ==
    filter(r, [filterPath \in PathsOf(r) |->
                \E i \in 1..Len(paths) : pathMatches(paths[i], filterPath)])

\* Filter falling back to the whole report when no diff matches
Filter_AllWhenNoMatch(r, paths) ==
    LET kept == filter(r, [filterPath \in PathsOf(r) |->
                    \E i \in 1..Len(paths) : pathMatches(paths[i], filterPath)])
    IN  IF Len(paths) = 0 \/ kept.Diffs = <<>> THEN r ELSE kept

Filter(r, paths) ==
    IF Len(paths) = 0 THEN r
    ELSE filter(r, [filterPath \in PathsOf(r) |->
                \E i \in 1..Len(paths) : pathMatches(paths[i], filterPath)])

\* Exclude looking at its first argument only
Exclude_FirstOnly(r, paths) ==
    IF Len(paths) = 0 THEN r
    ELSE filter(r, [filterPath \in PathsOf(r) |-> ~pathMatches(paths[1], filterPath)])

Exclude(r, paths) ==
    IF Len(paths) = 0 THEN r
    ELSE filter(r, [filterPath \in PathsOf(r) |->
                ~\E i \in 1..Len(paths) : pathMatches(paths[i], filterPath)])

FilterDocument(r, paths) ==
    IF Len(paths) = 0 THEN r
    ELSE filter(r, [filterPath \in PathsOf(r) |->
                \E i \in 1..Len(paths) :
                    ~filterPath.isNil /\ paths[i] = RootDescription(filterPath)])

ExcludeDocument(r, paths) ==
    IF Len(paths) = 0 THEN r
    ELSE filter(r, [filterPath \in PathsOf(r) |->
                ~\E i \in 1..Len(paths) :
                    ~filterPath.isNil /\ paths[i] = RootDescription(filterPath)])

\* a call's return: the Report, or a panic that returns nothing
Returns(r) == [panic |-> FALSE, report |-> r]
Panics == [panic |-> TRUE, report |-> NoReport]

\* the MustCompile loop of the four regexp operations
allCompile(pattern) == \A i \in 1..Len(pattern) : Compiles(pattern[i])

\* FilterRegexp falling back to the whole report when no diff matches
FilterRegexp_AllWhenNoMatch(r, pattern) ==
    LET kept == filter(r, [filterPath \in PathsOf(r) |->
                    \E i \in 1..Len(pattern) :
                        ~filterPath.isNil /\ MatchString(pattern[i], String(filterPath))])
    IN  IF Len(pattern) = 0 THEN Returns(r)
        ELSE IF ~allCompile(pattern) THEN Panics
        ELSE IF kept.Diffs = <<>> THEN Returns(r) ELSE Returns(kept)

\* FilterRegexp with regexp.Compile in place of MustCompile, a pattern that
\* does not compile matching nothing
FilterRegexp_SkipsUncompilable(r, pattern) ==
    IF Len(pattern) = 0 THEN Returns(r)
    ELSE Returns(filter(r, [filterPath \in PathsOf(r) |->
                \E i \in 1..Len(pattern) :
                    /\ Compiles(pattern[i])
                    /\ ~filterPath.isNil
                    /\ MatchString(pattern[i], String(filterPath))]))

FilterRegexp(r, pattern) ==
    IF Len(pattern) = 0 THEN Returns(r)
    ELSE IF ~allCompile(pattern) THEN Panics
    ELSE Returns(filter(r, [filterPath \in PathsOf(r) |->
                \E i \in 1..Len(pattern) :
                    ~filterPath.isNil /\ MatchString(pattern[i], String(filterPath))]))

ExcludeRegexp(r, pattern) ==
    IF Len(pattern) = 0 THEN Returns(r)
    ELSE IF ~allCompile(pattern) THEN Panics
    ELSE Returns(filter(r, [filterPath \in PathsOf(r) |->
                ~\E i \in 1..Len(pattern) :
                    ~filterPath.isNil /\ MatchString(pattern[i], String(filterPath))]))

FilterDocumentRegexp(r, pattern) ==
    IF Len(pattern) = 0 THEN Returns(r)
    ELSE IF ~allCompile(pattern) THEN Panics
    ELSE Returns(filter(r, [filterPath \in PathsOf(r) |->
                \E i \in 1..Len(pattern) :
                    ~filterPath.isNil /\ MatchString(pattern[i], RootDescription(filterPath))]))

ExcludeDocumentRegexp(r, pattern) ==
    IF Len(pattern) = 0 THEN Returns(r)
    ELSE IF ~allCompile(pattern) THEN Panics
    ELSE Returns(filter(r, [filterPath \in PathsOf(r) |->
                ~\E i \in 1..Len(pattern) :
                    ~filterPath.isNil /\ MatchString(pattern[i], RootDescription(filterPath))]))

\* the inner loop looking at the first detail only
hasValChange_FirstOnly(details) ==
    Len(details) > 0 /\ details[1].Kind = MODIFICATION

\* the inner loop of IgnoreValueChanges: range diff.Details until a MODIFICATION
hasValChange(details) ==
    LET loop[i \in 0..Len(details)] ==
            IF i = 0 THEN FALSE
            ELSE loop[i - 1] \/ details[i].Kind = MODIFICATION
    IN  loop[Len(details)]

IgnoreValueChanges(r) ==
    LET loop[i \in 0..Len(r.Diffs)] ==
            IF i = 0 THEN <<>>
            ELSE IF ~hasValChange(r.Diffs[i].Details)
                 THEN Append(loop[i - 1], r.Diffs[i])
                 ELSE loop[i - 1]
    IN  Returns([From |-> r.From, To |-> r.To, Diffs |-> loop[Len(r.Diffs)]])

\* len(diff.Details) == 1 && diff.Details[0].Kind == ADDITION: only then is
\* diff.Path dereferenced
singleAddition(diff) == Len(diff.Details) = 1 /\ diff.Details[1].Kind = ADDITION

isNewDoc(diff) == singleAddition(diff) /\ diff.Path.nilElems

IgnoreNewDocuments(r) ==
    LET loop[i \in 0..Len(r.Diffs)] ==
            IF i = 0 THEN <<>>
            ELSE IF ~isNewDoc(r.Diffs[i])
                 THEN Append(loop[i - 1], r.Diffs[i])
                 ELSE loop[i - 1]
    IN  IF \E i \in 1..Len(r.Diffs) : singleAddition(r.Diffs[i]) /\ r.Diffs[i].Path.isNil
        THEN Panics    \* nil pointer dereference of diff.Path
        ELSE Returns([From |-> r.From, To |-> r.To, Diffs |-> loop[Len(r.Diffs)]])

----------------------------------------------------------------------------
(* YAMLReport: consolidateDiff and WriteReport *)

\* case 2 with the ADDITION's From and the REMOVAL's To taken instead
mergeTwo_SwappedSides(details) ==
    LET loop[i \in 0..Len(details)] ==
            IF i = 0 THEN ZeroDetail
            ELSE CASE details[i].Kind = ADDITION -> [loop[i - 1] EXCEPT !.To = details[i].From]
                   [] details[i].Kind = REMOVAL  -> [loop[i - 1] EXCEPT !.From = details[i].To]
                   [] OTHER                      -> loop[i - 1]
    IN  [loop[Len(details)] EXCEPT !.Kind = MODIFICATION]

\* case 2: range diff.Details, To from an ADDITION, From from a REMOVAL, and
\* then deet.Kind = MODIFICATION whatever the two kinds were
mergeTwo(details) ==
    LET loop[i \in 0..Len(details)] ==
            IF i = 0 THEN ZeroDetail
            ELSE CASE details[i].Kind = ADDITION -> [loop[i - 1] EXCEPT !.To = details[i].To]
                   [] details[i].Kind = REMOVAL  -> [loop[i - 1] EXCEPT !.From = details[i].From]
                   [] OTHER                      -> loop[i - 1]
    IN  [loop[Len(details)] EXCEPT !.Kind = MODIFICATION]

\* switch len(diff.Details): no other case, so deet stays the zero Detail
deetOf(details) ==
    CASE Len(details) = 1 -> details[1]
      [] Len(details) = 2 -> mergeTwo(details)
      [] OTHER            -> ZeroDetail

\* the Diff appended to fileDiffs[diff.Path.RootDescription()]
consolidated(diff) == [Path |-> diff.Path, Details |-> <<deetOf(diff.Details)>>]

\* fileDiffs := make(map[string][]Diff)
EmptyMap == [file \in {} |-> <<>>]

\* consolidateDiff assigning the new Diff to the key instead of appending it
consolidateDiff_Overwrites(r) ==
    LET loop[i \in 0..Len(r.Diffs)] ==
            IF i = 0 THEN EmptyMap
            ELSE LET prev == loop[i - 1]
                     file == RootDescription(r.Diffs[i].Path)
                 IN  [f \in DOMAIN prev \cup {file} |->
                        IF f = file THEN <<consolidated(r.Diffs[i])>> ELSE prev[f]]
    IN  loop[Len(r.Diffs)]

\* func (report *YAMLReport) consolidateDiff() map[string][]Diff
consolidateDiff(r) ==
    LET loop[i \in 0..Len(r.Diffs)] ==
            IF i = 0 THEN EmptyMap
            ELSE LET prev == loop[i - 1]
                     file == RootDescription(r.Diffs[i].Path)
                     old  == IF file \in DOMAIN prev THEN prev[file] ELSE <<>>
                 IN  [f \in DOMAIN prev \cup {file} |->
                        IF f = file THEN Append(old, consolidated(r.Diffs[i])) ELSE prev[f]]
    IN  loop[Len(r.Diffs)]

\* the orders in which `range` may visit the keys of a Go map: any order
RangeOrders(keys) ==
    {order \in [1..Cardinality(keys) -> keys] :
        \A i, j \in 1..Cardinality(keys) : i # j => order[i] # order[j]}

\* the YAMLReportOutput written for one file
RecordOf(file, diffs) ==
    [write |-> "record", File |-> file,
     Diffs |-> [i \in 1..Len(diffs) |->
                    [Path |-> String(diffs[i].Path), Details |-> diffs[i].Details]]]

\* writer.WriteString("\n")
Newline == [write |-> "newline", File |-> "", Diffs |-> <<>>]

\* func (report *YAMLReport) WriteReport(out io.Writer) error, with the map
\* ranged in `order`; the iteration numbered failAt returns an error from
\* K8sMetaFromName, ToYAML or WriteString (0: none does)
WriteReport(r, order, failAt) ==
    LET fd == consolidateDiff(r)
        n  == IF failAt = 0 THEN Len(order) ELSE failAt - 1
        written == [i \in 1..n |-> RecordOf(order[i], fd[order[i]])]
    IN  IF failAt = 0
        THEN [err |-> "nil", out |-> Append(written, Newline)]
        ELSE [err |-> "err", out |-> written]

----------------------------------------------------------------------------
(* cmd: writeReport *)

\* what RunE returns: nothing yet, nil, an ordinary error, an
\* errorWithExitCode{value}, or a panic that unwinds it
Outcome(kind, value) == [kind |-> kind, value |-> value]
NotReturned == Outcome("none", 0)
Nil == Outcome("nil", 0)
Error == Outcome("error", 0)
ErrorWithExitCode(value) == Outcome("errorWithExitCode", value)
Panic == Outcome("panic", 0)

\* strings.ToLower(reportOptions.Style)
ToLower(style) ==
    CASE style = "YAML"  -> "yaml"
      [] style = "Brief" -> "brief"
      [] OTHER           -> style

\* the cases of the switch on the style
ReportWriterOf(style) ==
    CASE style \in {"human", "bosh"}             -> "HumanReport"
      [] style \in {"github", "linguist"}        -> "DiffSyntaxReport"
      [] style \in {"gitlab", "rogue"}           -> "DiffSyntaxReport"
      [] style \in {"gitea", "forgejo"}          -> "DiffSyntaxReport"
      [] style \in {"yaml", "yml"}               -> "YAMLReport"
      [] style \in {"brief", "short", "summary"} -> "BriefReport"
      [] OTHER                                   -> "unknown"

\* WriteReport of the writers other than YAMLReport: one block per Diff, the
\* block numbered failAt failing (0: none does)
DiffWriteReport(r, failAt) ==
    LET n == IF failAt = 0 THEN Len(r.Diffs) ELSE failAt - 1
        written == [i \in 1..n |->
                        [write |-> "diff", File |-> String(r.Diffs[i].Path), Diffs |-> <<>>]]
    IN  IF failAt = 0
        THEN [err |-> "nil", out |-> Append(written, Newline)]
        ELSE [err |-> "err", out |-> written]

\* the ways reportWriter.WriteReport(os.Stdout) can go
Renderings(writer, r) ==
    IF writer = "YAMLReport"
    THEN {WriteReport(r, order, failAt) :
            order \in RangeOrders(DOMAIN consolidateDiff(r)),
            failAt \in 0..Cardinality(DOMAIN consolidateDiff(r))}
    ELSE {DiffWriteReport(r, failAt) : failAt \in 0..Len(r.Diffs)}

\* the gate with the two exit codes exchanged
returnAfterWrite_Exchanged(exitWithCode, r, werr) ==
    IF werr # "nil" THEN Error
    ELSE IF exitWithCode
         THEN IF Len(r.Diffs) = 0 THEN ErrorWithExitCode(1) ELSE ErrorWithExitCode(0)
         ELSE Nil

\* what writeReport returns once WriteReport returned werr
returnAfterWrite(exitWithCode, r, werr) ==
    IF werr # "nil" THEN Error
    ELSE IF exitWithCode
         THEN IF Len(r.Diffs) = 0 THEN ErrorWithExitCode(0) ELSE ErrorWithExitCode(1)
         ELSE Nil

----------------------------------------------------------------------------
(* cmd: betweenCmd.RunE from the comparison's return on *)

\* a []string option: nil unless the flag or the config file sets it
NilSlice == [isNil |-> TRUE, items |-> <<>>]
Slice(items) == [isNil |-> FALSE, items |-> items]

\* the order of the if-statements with the documented order in their place
StageAfter_Documented(stage) ==
    CASE stage = "Filter"                -> "Exclude"
      [] stage = "Exclude"               -> "FilterRegexp"
      [] stage = "FilterRegexp"          -> "ExcludeRegexp"
      [] stage = "ExcludeRegexp"         -> "FilterDocument"
      [] stage = "FilterDocument"        -> "ExcludeDocument"
      [] stage = "ExcludeDocument"       -> "FilterDocumentRegexp"
      [] stage = "FilterDocumentRegexp"  -> "ExcludeDocumentRegexp"
      [] stage = "ExcludeDocumentRegexp" -> "IgnoreValueChanges"
      [] stage = "IgnoreValueChanges"    -> "IgnoreNewDocuments"
      [] stage = "IgnoreNewDocuments"    -> "writeReport"

\* the if-statement that follows the one for `stage`
StageAfter(stage) ==
    CASE stage = "Filter"                -> "FilterRegexp"
      [] stage = "FilterRegexp"          -> "Exclude"
      [] stage = "Exclude"               -> "ExcludeRegexp"
      [] stage = "ExcludeRegexp"         -> "FilterDocument"
      [] stage = "FilterDocument"        -> "FilterDocumentRegexp"
      [] stage = "FilterDocumentRegexp"  -> "ExcludeDocument"
      [] stage = "ExcludeDocument"       -> "ExcludeDocumentRegexp"
      [] stage = "ExcludeDocumentRegexp" -> "IgnoreValueChanges"
      [] stage = "IgnoreValueChanges"    -> "IgnoreNewDocuments"
      [] stage = "IgnoreNewDocuments"    -> "writeReport"

----------------------------------------------------------------------------
(* Inputs of the library calls *)

\* sequences over S of length at most n, without repeated elements
RECURSIVE ListsUpTo(_, _)
ListsUpTo(S, n) ==
    IF n = 0 THEN {<<>>}
    ELSE LET shorter == ListsUpTo(S, n - 1)
         IN  shorter \cup
             {Append(l, x) : l \in {m \in shorter : Len(m) = n - 1},
                             x \in S}

NoRepeat(l) == \A i, j \in 1..Len(l) : i # j => l[i] # l[j]

ArgLists(S) == {l \in ListsUpTo(S, MaxArgs) : NoRepeat(l)}

PathStrings == {"/", "/a", "a.b", "/a=b=c"}
PathPatterns == {"^/a", "b$", "("}
DocumentNames == {"d1", "d2"}
DocumentPatterns == {"2$", "("}

\* the argument lists of the calls: paths ...string, pattern ...string
PathStringLists == ArgLists(PathStrings)
PathPatternLists == ArgLists(PathPatterns)
DocumentNameLists == ArgLists(DocumentNames)
DocumentPatternLists == ArgLists(DocumentPatterns)

LibPaths ==
    {NilPath, RootPath("d1"), Path("d2", <<>>), Path("d1", <<"a">>), Path("d2", <<"a", "b">>)}

LibDiffs ==
    [Path : LibPaths, Details : {<<Add("v2")>>}]
    \cup [Path : {Path("d1", <<"a">>)}, Details : {<<Mod("v1", "v2")>>}]
    \cup [Path : {RootPath("d1")},
          Details : {<<>>, <<Rem("v1")>>, <<Add("v2"), Rem("v1")>>,
                     <<Ord("v1", "v2"), Add("v2"), Mod("v1", "v2")>>}]

LibReports == {Report(ds) : ds \in ListsUpTo(LibDiffs, MaxDiffs)}

NoCall == [op |-> "none", args |-> <<>>]

\* variables a specification does not use
IdleCmd ==
    /\ opts = <<>>
    /\ compared = NoReport
    /\ stages = <<>>
    /\ writeErr = "none"
IdleYaml ==
    /\ fileDiffs = <<>>
    /\ out = <<>>
IdleLib ==
    /\ call = NoCall
    /\ result = Returns(NoReport)
IdleSink ==
    /\ outputWriter = <<>>
    /\ fileBytes = <<>>
    /\ inputFile = <<>>
    /\ buf = <<>>

InitLib ==
    /\ report \in LibReports
    /\ call = NoCall
    /\ result = Returns(NoReport)
    /\ pc = "call"
    /\ outcome = NotReturned
    /\ IdleCmd
    /\ IdleYaml
    /\ IdleSink

\* what a library call leaves alone: the Report it is called on is a value
\* receiver, and the command's and the writer's state is not involved
untouchedByCall == <<report, opts, compared, stages, fileDiffs, out, writeErr, outcome, sink>>

\* result = report.Filter(paths...)
CallFilter ==
    /\ pc = "call"
    /\ \E paths \in PathStringLists :
        /\ call' = [op |-> "Filter", args |-> paths]
        /\ result' = Returns(Filter(report, paths))
    /\ pc' = "returned"
    /\ UNCHANGED untouchedByCall

\* result = report.Exclude(paths...)
CallExclude ==
    /\ pc = "call"
    /\ \E paths \in PathStringLists :
        /\ call' = [op |-> "Exclude", args |-> paths]
        /\ result' = Returns(Exclude(report, paths))
    /\ pc' = "returned"
    /\ UNCHANGED untouchedByCall

\* result = report.FilterDocument(paths...)
CallFilterDocument ==
    /\ pc = "call"
    /\ \E paths \in DocumentNameLists :
        /\ call' = [op |-> "FilterDocument", args |-> paths]
        /\ result' = Returns(FilterDocument(report, paths))
    /\ pc' = "returned"
    /\ UNCHANGED untouchedByCall

\* result = report.ExcludeDocument(paths...)
CallExcludeDocument ==
    /\ pc = "call"
    /\ \E paths \in DocumentNameLists :
        /\ call' = [op |-> "ExcludeDocument", args |-> paths]
        /\ result' = Returns(ExcludeDocument(report, paths))
    /\ pc' = "returned"
    /\ UNCHANGED untouchedByCall

\* result = report.FilterRegexp(pattern...)
CallFilterRegexp ==
    /\ pc = "call"
    /\ \E pattern \in PathPatternLists :
        /\ call' = [op |-> "FilterRegexp", args |-> pattern]
        /\ result' = FilterRegexp(report, pattern)
    /\ pc' = "returned"
    /\ UNCHANGED untouchedByCall

\* result = report.ExcludeRegexp(pattern...)
CallExcludeRegexp ==
    /\ pc = "call"
    /\ \E pattern \in PathPatternLists :
        /\ call' = [op |-> "ExcludeRegexp", args |-> pattern]
        /\ result' = ExcludeRegexp(report, pattern)
    /\ pc' = "returned"
    /\ UNCHANGED untouchedByCall

\* result = report.FilterDocumentRegexp(pattern...)
CallFilterDocumentRegexp ==
    /\ pc = "call"
    /\ \E pattern \in DocumentPatternLists :
        /\ call' = [op |-> "FilterDocumentRegexp", args |-> pattern]
        /\ result' = FilterDocumentRegexp(report, pattern)
    /\ pc' = "returned"
    /\ UNCHANGED untouchedByCall

\* result = report.ExcludeDocumentRegexp(pattern...)
CallExcludeDocumentRegexp ==
    /\ pc = "call"
    /\ \E pattern \in DocumentPatternLists :
        /\ call' = [op |-> "ExcludeDocumentRegexp", args |-> pattern]
        /\ result' = ExcludeDocumentRegexp(report, pattern)
    /\ pc' = "returned"
    /\ UNCHANGED untouchedByCall

\* result = report.IgnoreValueChanges()
CallIgnoreValueChanges ==
    /\ pc = "call"
    /\ call' = [op |-> "IgnoreValueChanges", args |-> <<>>]
    /\ result' = IgnoreValueChanges(report)
    /\ pc' = "returned"
    /\ UNCHANGED untouchedByCall

\* result = report.IgnoreNewDocuments()
CallIgnoreNewDocuments ==
    /\ pc = "call"
    /\ call' = [op |-> "IgnoreNewDocuments", args |-> <<>>]
    /\ result' = IgnoreNewDocuments(report)
    /\ pc' = "returned"
    /\ UNCHANGED untouchedByCall

NextLib ==
    \/ CallFilter
    \/ CallExclude
    \/ CallFilterDocument
    \/ CallExcludeDocument
    \/ CallFilterRegexp
    \/ CallExcludeRegexp
    \/ CallFilterDocumentRegexp
    \/ CallExcludeDocumentRegexp
    \/ CallIgnoreValueChanges
    \/ CallIgnoreNewDocuments

SpecLib == InitLib /\ [][NextLib]_vars

----------------------------------------------------------------------------
(* Properties of the library calls (SpecLib) *)

ListOps ==
    {"Filter", "Exclude", "FilterDocument", "ExcludeDocument",
     "FilterRegexp", "ExcludeRegexp", "FilterDocumentRegexp", "ExcludeDocumentRegexp"}
FilterOps == {"Filter", "FilterRegexp", "FilterDocument", "FilterDocumentRegexp"}
RegexpStages ==
    {"FilterRegexp", "ExcludeRegexp", "FilterDocumentRegexp", "ExcludeDocumentRegexp"}
ExcludeOps == {"Exclude", "ExcludeRegexp", "ExcludeDocument", "ExcludeDocumentRegexp"}

\* r.op(args...)
Invoke(op, r, args) ==
    CASE op = "Filter"                -> Returns(Filter(r, args))
      [] op = "Exclude"               -> Returns(Exclude(r, args))
      [] op = "FilterDocument"        -> Returns(FilterDocument(r, args))
      [] op = "ExcludeDocument"       -> Returns(ExcludeDocument(r, args))
      [] op = "FilterRegexp"          -> FilterRegexp(r, args)
      [] op = "ExcludeRegexp"         -> ExcludeRegexp(r, args)
      [] op = "FilterDocumentRegexp"  -> FilterDocumentRegexp(r, args)
      [] op = "ExcludeDocumentRegexp" -> ExcludeDocumentRegexp(r, args)
      [] op = "IgnoreValueChanges"    -> IgnoreValueChanges(r)
      [] op = "IgnoreNewDocuments"    -> IgnoreNewDocuments(r)

\* report = report.op(args...) after an earlier call returned ret
AndThen(ret, op, args) == IF ret.panic THEN ret ELSE Invoke(op, ret.report, args)

ArgsOf(op) ==
    CASE op \in {"Filter", "Exclude"}                             -> PathStringLists
      [] op \in {"FilterDocument", "ExcludeDocument"}             -> DocumentNameLists
      [] op \in {"FilterRegexp", "ExcludeRegexp"}                 -> PathPatternLists
      [] op \in {"FilterDocumentRegexp", "ExcludeDocumentRegexp"} -> DocumentPatternLists
      [] OTHER                                                    -> {<<>>}

Elems(l) == {l[i] : i \in 1..Len(l)}
HasModification(d) == \E i \in 1..Len(d.Details) : d.Details[i].Kind = MODIFICATION
IsSingleAddition(d) == Len(d.Details) = 1 /\ d.Details[1].Kind = ADDITION

\* C5 (as amended): a filter stage and an exclude stage commute: for every
\* Report r, every filter operation called with P and every exclude operation
\* called with Q, r.filter(P).exclude(Q) and r.exclude(Q).filter(P) end the
\* same way: the same Report, or a panic on an uncompilable pattern.
C5_FilterExcludeCommute ==
    (pc = "returned" /\ call.op \in FilterOps) =>
        \A ex \in ExcludeOps : \A Q \in ArgsOf(ex) :
            AndThen(result, ex, Q) = AndThen(Invoke(ex, report, Q), call.op, call.args)

\* a Filter that dropped a diff, followed by an Exclude that drops another
C5_Witness ==
    /\ pc = "returned" /\ call.op = "Filter" /\ call.args # <<>>
    /\ Len(result.report.Diffs) = 1 /\ Len(report.Diffs) = 2
    /\ \E Q \in PathStringLists :
            Q # <<>> /\ AndThen(result, "Exclude", Q).report.Diffs = <<>>

\* C5 as stated: some Report r and non-empty P, Q make r.Filter(P).Exclude(Q)
\* and r.Exclude(Q).Filter(P) differ in their Diffs.
C5_FilterExcludeOrderMatters ==
    pc \in {"call", "returned"} => \E r \in LibReports :
        \E P \in PathStringLists \ {<<>>} : \E Q \in PathStringLists \ {<<>>} :
            Exclude(Filter(r, P), Q).Diffs # Filter(Exclude(r, Q), P).Diffs

\* C6: each of the eight Filter*/Exclude* operations called with no arguments
\* returns the Report it was called on, also when a Diff has a nil Path.
C6_EmptyArgsIdentity ==
    (pc = "returned" /\ call.op \in ListOps /\ call.args = <<>>) =>
        result = Returns(report)

C6_Witness ==
    /\ pc = "returned" /\ call.op = "Filter" /\ call.args = <<>>
    /\ \E i \in 1..Len(report.Diffs) : report.Diffs[i].Path.isNil
    /\ result.report.Diffs = report.Diffs

\* C7: for disjoint lists of path strings A and B, r.Exclude(A).Exclude(B) is
\* r.Exclude(A \o B) and is r.Exclude(B).Exclude(A), empty lists and
\* unparseable path strings included.
C7_ExcludeUnion ==
    (pc = "returned" /\ call.op = "Exclude") =>
        \A B \in PathStringLists :
            Elems(B) \cap Elems(call.args) = {} =>
                /\ Exclude(result.report, B) = Exclude(report, call.args \o B)
                /\ Exclude(result.report, B) = Exclude(Exclude(report, B), call.args)

\* Exclude(A) dropped one diff, A holds an unparseable string, and a disjoint B
\* drops the other diff
C7_Witness ==
    /\ pc = "returned" /\ call.op = "Exclude"
    /\ "/a=b=c" \in Elems(call.args)
    /\ Len(report.Diffs) = 2 /\ Len(result.report.Diffs) = 1
    /\ \E B \in PathStringLists :
            /\ Elems(B) \cap Elems(call.args) = {}
            /\ Exclude(result.report, B).Diffs = <<>>

\* the path strings of the model that do not parse
UnparseableStrings == {x \in PathStrings : ParsePathStringUnsafe(x).err}

\* l with x put in after its first k elements
InsertAt(l, k, x) == SubSeq(l, 1, k) \o <<x>> \o SubSeq(l, k + 1, Len(l))

\* C12: Filter called with unparseable path strings only returns no Diffs and
\* Exclude called with unparseable path strings only returns all the Diffs;
\* putting an unparseable string anywhere into an argument list that has a
\* parseable path leaves the result of Filter and of Exclude as it was.
C12_UnparseableNeverMatches ==
    (pc = "returned" /\ call.op \in {"Filter", "Exclude"} /\ call.args # <<>>) =>
        /\ ~result.panic
        /\ Elems(call.args) \subseteq UnparseableStrings =>
                result.report.Diffs = IF call.op = "Filter" THEN <<>> ELSE report.Diffs
        /\ ~(Elems(call.args) \subseteq UnparseableStrings) =>
                \A x \in UnparseableStrings : \A k \in 0..Len(call.args) :
                    Invoke(call.op, report, InsertAt(call.args, k, x)) = result

\* Filter called with an unparseable string only, on a report with a diff at
\* the root of a document and another one, returned no Diffs
C12_Witness ==
    /\ pc = "returned" /\ call.op = "Filter" /\ call.args = <<"/a=b=c">>
    /\ Len(report.Diffs) = 2
    /\ \E i \in 1..2 : ~report.Diffs[i].Path.isNil /\ String(report.Diffs[i].Path) = "/"
    /\ result.report.Diffs = <<>>

\* whether a is b with some of its elements left out
RECURSIVE IsSubsequence(_, _)
IsSubsequence(a, b) ==
    IF a = <<>> THEN TRUE
    ELSE IF b = <<>> THEN FALSE
    ELSE IF Head(a) = Head(b) THEN IsSubsequence(Tail(a), Tail(b))
    ELSE IsSubsequence(a, Tail(b))

\* no path (and no nil Path) occurs in two Diffs
PathsOccurOnce(diffs) ==
    \A i, j \in 1..Len(diffs) : diffs[i].Path = diffs[j].Path => i = j

\* C14 as stated: each of the ten operations, for every argument list (every
\* pattern compiling), returns a Report with the From and To of the Report it
\* was called on and with Diffs an order-preserving subsequence of that
\* Report's Diffs, leaves the Report it was called on as it was, and keeps
\* paths that occur once occurring once.
C14_ReturnsSubsequence ==
    [][(pc = "call" /\ pc' = "returned"
            /\ (call'.op \in RegexpStages => allCompile(call'.args))) =>
        /\ ~result'.panic
        /\ result'.report.From = report.From
        /\ result'.report.To = report.To
        /\ IsSubsequence(result'.report.Diffs, report.Diffs)
        /\ report' = report
        /\ PathsOccurOnce(report.Diffs) => PathsOccurOnce(result'.report.Diffs)]_vars

\* C8 as stated: IgnoreNewDocuments drops exactly the Diffs whose Path has no
\* path elements (a nil or an empty element list) and whose Details is a
\* single ADDITION, and keeps every other Diff.
C8_DropsExactlyRootAdditions ==
    (pc = "returned" /\ call.op = "IgnoreNewDocuments" /\ ~result.panic) =>
        result.report.Diffs =
            SelectSeq(report.Diffs,
                      LAMBDA d : ~(Len(d.Path.PathElements) = 0 /\ IsSingleAddition(d)))

\* C9: IgnoreValueChanges drops every Diff with a MODIFICATION among its
\* details and keeps every other Diff, whole and in order.
C9_DropsExactlyModified ==
    (pc = "returned" /\ call.op = "IgnoreValueChanges") =>
        result = Returns([From |-> report.From, To |-> report.To,
                          Diffs |-> SelectSeq(report.Diffs, LAMBDA d : ~HasModification(d))])

\* a Diff with no details is kept, one whose third detail is a MODIFICATION is dropped
C9_Witness ==
    /\ pc = "returned" /\ call.op = "IgnoreValueChanges"
    /\ Len(report.Diffs) = 2
    /\ report.Diffs[1].Details = <<>>
    /\ Len(report.Diffs[2].Details) = 3
    /\ report.Diffs[2].Details[3].Kind = MODIFICATION
    /\ result.report.Diffs = <<report.Diffs[1]>>

----------------------------------------------------------------------------
(* YAMLReport.WriteReport on its own (SpecYAML) *)

YamlPaths == {Path("d1", <<"a">>), Path("d1", <<"b">>), Path("d2", <<"a">>)}

YamlDetails == {Add("v2"), Rem("v1"), Mod("v1", "v2"), Ord("v1", "v2")}

\* a path occurs in at most one Diff of a report (the producer's contract)
YamlPathLists == {l \in ListsUpTo(YamlPaths, Cardinality(YamlPaths)) : NoRepeat(l)}

RECURSIVE SumTo(_, _)
SumTo(lens, i) == IF i = 0 THEN 0 ELSE lens[i] + SumTo(lens, i - 1)

\* how many details each of n diffs has: at most MaxDetails in all
DetailCounts(n) ==
    {lens \in [1..n -> 0..MaxDetails] : SumTo(lens, n) <= MaxDetails}

\* the report with the paths ps whose i-th diff has the next lens[i] details of `details`
YamlReport(ps, lens, details) ==
    Report([i \in 1..Len(ps) |->
                Diff(ps[i], SubSeq(details, SumTo(lens, i - 1) + 1, SumTo(lens, i)))])

InitYAML ==
    /\ \E ps \in YamlPathLists :
        \E lens \in DetailCounts(Len(ps)) :
            \E details \in [1..SumTo(lens, Len(ps)) -> YamlDetails] :
                report = YamlReport(ps, lens, details)
    /\ pc = "WriteReport"
    /\ fileDiffs = <<>>
    /\ out = <<>>
    /\ writeErr = "none"
    /\ outcome = NotReturned
    /\ opts = <<>>
    /\ compared = NoReport
    /\ stages = <<>>
    /\ IdleLib
    /\ IdleSink

\* err := (&YAMLReport{Report: report}).WriteReport(os.Stdout)
YAMLWriteReport ==
    /\ pc = "WriteReport"
    /\ fileDiffs' = consolidateDiff(report)
    /\ \E order \in RangeOrders(DOMAIN consolidateDiff(report)) :
        \E failAt \in 0..Len(order) :
            /\ out' = out \o WriteReport(report, order, failAt).out
            /\ writeErr' = WriteReport(report, order, failAt).err
    /\ pc' = "done"
    /\ UNCHANGED <<report, call, result, opts, compared, stages, outcome, sink>>

NextYAML == YAMLWriteReport

SpecYAML == InitYAML /\ [][NextYAML]_vars

----------------------------------------------------------------------------
(* Properties of consolidateDiff and WriteReport (SpecYAML) *)

DocOf(i) == RootDescription(report.Diffs[i].Path)

\* report.Diffs[i] is the RankOf(i)-th Diff of its document
RankOf(i) == Cardinality({j \in 1..i : DocOf(j) = DocOf(i)})

HasEntry(i) ==
    /\ DocOf(i) \in DOMAIN fileDiffs
    /\ RankOf(i) <= Len(fileDiffs[DocOf(i)])

\* the Diff the grouping holds for report.Diffs[i]
EntryOf(i) == fileDiffs[DocOf(i)][RankOf(i)]

KindsOf(details) == {details[i].Kind : i \in 1..Len(details)}

IsAddRemovePair(details) ==
    Len(details) = 2 /\ KindsOf(details) = {ADDITION, REMOVAL}

AdditionOf(details) == CHOOSE d \in Elems(details) : d.Kind = ADDITION
RemovalOf(details) == CHOOSE d \in Elems(details) : d.Kind = REMOVAL

\* the documents of diffs in the order of their first occurrence
RECURSIVE FirstSeen(_)
FirstSeen(diffs) ==
    IF diffs = <<>> THEN <<>>
    ELSE LET before == FirstSeen(SubSeq(diffs, 1, Len(diffs) - 1))
             file == RootDescription(diffs[Len(diffs)].Path)
         IN  IF file \in Elems(before) THEN before ELSE Append(before, file)

FilesWritten == [i \in 1..Len(SelectSeq(out, LAMBDA w : w.write = "record")) |->
                    SelectSeq(out, LAMBDA w : w.write = "record")[i].File]

\* C1: consolidation turns a Diff with one ADDITION (To = v2) and one REMOVAL
\* (From = v1), in either order, into that path's single MODIFICATION detail
\* with From = v1 and To = v2, and leaves a Diff with a single detail as it is.
C1_PairMergedSingleKept ==
    pc = "done" =>
        \A i \in 1..Len(report.Diffs) :
            LET d == report.Diffs[i] IN
            /\ IsAddRemovePair(d.Details) =>
                /\ HasEntry(i)
                /\ EntryOf(i).Path = d.Path
                /\ EntryOf(i).Details =
                      <<Detail(MODIFICATION, RemovalOf(d.Details).From, AdditionOf(d.Details).To)>>
            /\ Len(d.Details) = 1 =>
                /\ HasEntry(i)
                /\ EntryOf(i) = d

\* a REMOVAL-then-ADDITION pair merged next to a single MODIFICATION kept
C1_Witness ==
    /\ pc = "done"
    /\ Len(report.Diffs) = 2
    /\ report.Diffs[1].Details = <<Rem("v1"), Add("v2")>>
    /\ report.Diffs[2].Details = <<Mod("v1", "v2")>>
    /\ HasEntry(1) /\ EntryOf(1).Details = <<Mod("v1", "v2")>>
    /\ HasEntry(2) /\ EntryOf(2) = report.Diffs[2]

\* C2 as stated: a Diff with no details, with three or more details, or with
\* two details that are not one ADDITION and one REMOVAL has the same Details
\* in the consolidated grouping as in the input.
C2_OtherShapesUnmodified ==
    pc = "done" =>
        \A i \in 1..Len(report.Diffs) :
            LET d == report.Diffs[i] IN
            (Len(d.Details) # 1 /\ ~IsAddRemovePair(d.Details)) =>
                /\ HasEntry(i)
                /\ EntryOf(i).Details = d.Details

\* C3 as stated: WriteReport writes one record per document, in the order in
\* which the documents first occur in Report.Diffs.
C3_RecordsInFirstSeenOrder ==
    (pc = "done" /\ writeErr = "nil") => FilesWritten = FirstSeen(report.Diffs)

\* the paths of the Diffs of `diffs`, in order
PathSeq(diffs) == [i \in 1..Len(diffs) |-> diffs[i].Path]

\* the Diffs of the report that belong to document f, in the report's order
DiffsOfDocument(f) == SelectSeq(report.Diffs, LAMBDA d : RootDescription(d.Path) = f)

RECURSIVE TotalLen(_, _)
TotalLen(groups, keys) ==
    IF keys = {} THEN 0
    ELSE LET k == CHOOSE x \in keys : TRUE
         IN  Len(groups[k]) + TotalLen(groups, keys \ {k})

\* C15: the map consolidateDiff builds has one group for each RootDescription
\* that occurs in Report.Diffs and no other, none of them empty; the group of
\* a document holds one entry for each Diff of that document, with the paths
\* in the order the Diffs have in Report.Diffs; and the group lengths add up
\* to the number of Diffs.
C15_GroupsPartitionDiffs ==
    pc = "done" =>
        /\ DOMAIN fileDiffs = {DocOf(i) : i \in 1..Len(report.Diffs)}
        /\ \A f \in DOMAIN fileDiffs :
                /\ fileDiffs[f] # <<>>
                /\ PathSeq(fileDiffs[f]) = PathSeq(DiffsOfDocument(f))
        /\ TotalLen(fileDiffs, DOMAIN fileDiffs) = Len(report.Diffs)

\* Diffs of d1, d2, d1 in this order: two groups, the one of d1 with the two
\* paths in report order
C15_Witness ==
    /\ pc = "done"
    /\ Len(report.Diffs) = 3
    /\ DocOf(1) = "d1" /\ DocOf(2) = "d2" /\ DocOf(3) = "d1"
    /\ DOMAIN fileDiffs = {"d1", "d2"}
    /\ PathSeq(fileDiffs["d1"]) = <<report.Diffs[1].Path, report.Diffs[3].Path>>

----------------------------------------------------------------------------
(* The between command (Spec) *)

\* reports of the comparison: no nil Path, a nil element list at a document
\* root, and each path in one Diff
CmdDiffs ==
    {Diff(Path("d1", <<"a">>), <<Mod("v1", "v2")>>),
     Diff(Path("d2", <<"a", "b">>), <<Add("v2")>>),
     Diff(RootPath("d2"), <<Add("v2")>>)}

CmdReports == {Report(ds) : ds \in {l \in ListsUpTo(CmdDiffs, MaxDiffs) : NoRepeat(l)}}

Choices(lists) == {NilSlice} \cup {Slice(l) : l \in lists}

Styles == {"YAML", "brief", "xml"}

AllOptions ==
    [Filters                : Choices({<<"a.b">>}),
     Excludes               : Choices({<<"/a">>}),
     FilterRegexps          : Choices({<<"^/a">>, <<"(">>}),
     ExcludeRegexps         : Choices({<<"b$">>, <<"(">>}),
     FilterDocuments        : Choices({<<"d2">>}),
     ExcludeDocuments       : Choices({<<"d1">>}),
     FilterDocumentRegexps  : Choices({<<"2$">>, <<"(">>}),
     ExcludeDocumentRegexps : Choices({<<"^d">>, <<"(">>}),
     IgnoreValueChanges     : BOOLEAN,
     IgnoreNewDocuments     : BOOLEAN,
     ExitWithCode           : BOOLEAN,
     Style                  : Styles]

\* whether the if-statement for `stage` makes its call
Wanted(stage, o) ==
    CASE stage = "Filter"                -> ~o.Filters.isNil
      [] stage = "FilterRegexp"          -> ~o.FilterRegexps.isNil
      [] stage = "Exclude"               -> ~o.Excludes.isNil
      [] stage = "ExcludeRegexp"         -> ~o.ExcludeRegexps.isNil
      [] stage = "FilterDocument"        -> ~o.FilterDocuments.isNil
      [] stage = "FilterDocumentRegexp"  -> ~o.FilterDocumentRegexps.isNil
      [] stage = "ExcludeDocument"       -> ~o.ExcludeDocuments.isNil
      [] stage = "ExcludeDocumentRegexp" -> ~o.ExcludeDocumentRegexps.isNil
      [] stage = "IgnoreValueChanges"    -> o.IgnoreValueChanges
      [] stage = "IgnoreNewDocuments"    -> o.IgnoreNewDocuments

StageNames ==
    {"Filter", "FilterRegexp", "Exclude", "ExcludeRegexp", "FilterDocument",
     "FilterDocumentRegexp", "ExcludeDocument", "ExcludeDocumentRegexp",
     "IgnoreValueChanges", "IgnoreNewDocuments"}

CmdOptions ==
    {o \in AllOptions : Cardinality({st \in StageNames : Wanted(st, o)}) <= MaxOptions}

Init ==
    /\ compared \in CmdReports
    /\ report = compared
    /\ opts \in CmdOptions
    /\ pc = "Filter"
    /\ stages = <<>>
    /\ writeErr = "none"
    /\ outcome = NotReturned
    /\ IdleLib
    /\ IdleYaml
    /\ IdleSink

untouchedByStage == <<call, result, opts, compared, fileDiffs, out, writeErr, sink>>

\* report = report.<stage>(...): the call returned ret, or panicked
ran(stage, ret) ==
    /\ stages' = Append(stages, stage)
    /\ IF ret.panic
       THEN /\ pc' = "done"
            /\ outcome' = Panic
            /\ UNCHANGED report
       ELSE /\ pc' = StageAfter(stage)
            /\ report' = ret.report
            /\ UNCHANGED outcome

\* the option is not set: on to the next if-statement
skipped(stage) ==
    /\ pc' = StageAfter(stage)
    /\ UNCHANGED <<report, stages, outcome>>

\* if reportOptions.Filters != nil { report = report.Filter(reportOptions.Filters...) }
StageFilter ==
    /\ pc = "Filter"
    /\ IF ~opts.Filters.isNil
       THEN ran("Filter", Returns(Filter(report, opts.Filters.items)))
       ELSE skipped("Filter")
    /\ UNCHANGED untouchedByStage

\* if reportOptions.FilterRegexps != nil { report = report.FilterRegexp(reportOptions.FilterRegexps...) }
StageFilterRegexp ==
    /\ pc = "FilterRegexp"
    /\ IF ~opts.FilterRegexps.isNil
       THEN ran("FilterRegexp", FilterRegexp(report, opts.FilterRegexps.items))
       ELSE skipped("FilterRegexp")
    /\ UNCHANGED untouchedByStage

\* if reportOptions.Excludes != nil { report = report.Exclude(reportOptions.Excludes...) }
StageExclude ==
    /\ pc = "Exclude"
    /\ IF ~opts.Excludes.isNil
       THEN ran("Exclude", Returns(Exclude(report, opts.Excludes.items)))
       ELSE skipped("Exclude")
    /\ UNCHANGED untouchedByStage

\* if reportOptions.ExcludeRegexps != nil { report = report.ExcludeRegexp(reportOptions.ExcludeRegexps...) }
StageExcludeRegexp ==
    /\ pc = "ExcludeRegexp"
    /\ IF ~opts.ExcludeRegexps.isNil
       THEN ran("ExcludeRegexp", ExcludeRegexp(report, opts.ExcludeRegexps.items))
       ELSE skipped("ExcludeRegexp")
    /\ UNCHANGED untouchedByStage

\* if reportOptions.FilterDocuments != nil { report = report.FilterDocument(reportOptions.FilterDocuments...) }
StageFilterDocument ==
    /\ pc = "FilterDocument"
    /\ IF ~opts.FilterDocuments.isNil
       THEN ran("FilterDocument", Returns(FilterDocument(report, opts.FilterDocuments.items)))
       ELSE skipped("FilterDocument")
    /\ UNCHANGED untouchedByStage

\* if reportOptions.FilterDocumentRegexps != nil { report = report.FilterDocumentRegexp(reportOptions.FilterDocumentRegexps...) }
StageFilterDocumentRegexp ==
    /\ pc = "FilterDocumentRegexp"
    /\ IF ~opts.FilterDocumentRegexps.isNil
       THEN ran("FilterDocumentRegexp", FilterDocumentRegexp(report, opts.FilterDocumentRegexps.items))
       ELSE skipped("FilterDocumentRegexp")
    /\ UNCHANGED untouchedByStage

\* if reportOptions.ExcludeDocuments != nil { report = report.ExcludeDocument(reportOptions.ExcludeDocuments...) }
StageExcludeDocument ==
    /\ pc = "ExcludeDocument"
    /\ IF ~opts.ExcludeDocuments.isNil
       THEN ran("ExcludeDocument", Returns(ExcludeDocument(report, opts.ExcludeDocuments.items)))
       ELSE skipped("ExcludeDocument")
    /\ UNCHANGED untouchedByStage

\* if reportOptions.ExcludeDocumentRegexps != nil { report = report.ExcludeDocumentRegexp(reportOptions.ExcludeDocumentRegexps...) }
StageExcludeDocumentRegexp ==
    /\ pc = "ExcludeDocumentRegexp"
    /\ IF ~opts.ExcludeDocumentRegexps.isNil
       THEN ran("ExcludeDocumentRegexp", ExcludeDocumentRegexp(report, opts.ExcludeDocumentRegexps.items))
       ELSE skipped("ExcludeDocumentRegexp")
    /\ UNCHANGED untouchedByStage

\* if reportOptions.IgnoreValueChanges { report = report.IgnoreValueChanges() }
StageIgnoreValueChanges ==
    /\ pc = "IgnoreValueChanges"
    /\ IF opts.IgnoreValueChanges
       THEN ran("IgnoreValueChanges", IgnoreValueChanges(report))
       ELSE skipped("IgnoreValueChanges")
    /\ UNCHANGED untouchedByStage

\* if reportOptions.IgnoreNewDocuments { report = report.IgnoreNewDocuments() }
StageIgnoreNewDocuments ==
    /\ pc = "IgnoreNewDocuments"
    /\ IF opts.IgnoreNewDocuments
       THEN ran("IgnoreNewDocuments", IgnoreNewDocuments(report))
       ELSE skipped("IgnoreNewDocuments")
    /\ UNCHANGED untouchedByStage

\* return writeReport(cmd, report)
writeReport ==
    /\ pc = "writeReport"
    /\ LET writer == ReportWriterOf(ToLower(opts.Style)) IN
       IF writer = "unknown"
       THEN /\ outcome' = Error
            /\ UNCHANGED <<out, writeErr, fileDiffs>>
       ELSE /\ \E w \in Renderings(writer, report) :
                /\ out' = out \o w.out
                /\ writeErr' = w.err
                /\ outcome' = returnAfterWrite(opts.ExitWithCode, report, w.err)
            /\ fileDiffs' = IF writer = "YAMLReport" THEN consolidateDiff(report) ELSE fileDiffs
    /\ pc' = "done"
    /\ UNCHANGED <<report, call, result, opts, compared, stages, sink>>

Next ==
    \/ StageFilter
    \/ StageFilterRegexp
    \/ StageExclude
    \/ StageExcludeRegexp
    \/ StageFilterDocument
    \/ StageFilterDocumentRegexp
    \/ StageExcludeDocument
    \/ StageExcludeDocumentRegexp
    \/ StageIgnoreValueChanges
    \/ StageIgnoreNewDocuments
    \/ writeReport

Spec == Init /\ [][Next]_vars

----------------------------------------------------------------------------
(* cmd: OutputWriter.WriteToStdout, WriteInplace and write (SpecSink) *)

\* type OutputWriter struct
OutputWriter(plainMode, restructure, omitIndentHelper, outputStyle) ==
    [PlainMode |-> plainMode, Restructure |-> restructure,
     OmitIndentHelper |-> omitIndentHelper, OutputStyle |-> outputStyle]

\* the texts of the documents a file is made of
DocumentTexts == {"a: 1", "{a: 1}", "{spec: 1, kind: A}", "a: ["}

\* ytbx.LoadFile: the documents of the file, or an error when one is malformed
ParseDocument(text) ==
    CASE text \in {"a: 1", "{a: 1}"}  -> "a: 1"
      [] text = "{spec: 1, kind: A}"  -> "spec: 1, kind: A"
      [] OTHER                        -> "malformed"

LoadFile(bytes) ==
    IF \E i \in 1..Len(bytes) : ParseDocument(bytes[i]) = "malformed"
    THEN [err |-> "err", Documents |-> <<>>]
    ELSE [err |-> "nil", Documents |-> [i \in 1..Len(bytes) |-> ParseDocument(bytes[i])]]

\* ytbx.RestructureObject(document): the keys in their conventional order
RestructureObject(document) ==
    IF document = "spec: 1, kind: A" THEN "kind: A, spec: 1" ELSE document

\* what the case of the switch that applies writes for a document that
\* encodes without an error; no case applies to a style other than json, yaml
Encoded(ow, document) ==
    CASE ow.PlainMode /\ ow.OutputStyle = "json" -> <<"{" \o document \o "}", "\n">>
      [] ow.PlainMode /\ ow.OutputStyle = "yaml" -> <<"---", "\n", document, "\n">>
      [] ~ow.PlainMode /\ ow.OutputStyle = "json" ->
            <<(IF ow.OmitIndentHelper THEN "" ELSE "|") \o "<b>{" \o document \o "}</b>", "\n">>
      [] ~ow.PlainMode /\ ow.OutputStyle = "yaml" ->
            <<(IF ow.OmitIndentHelper THEN "" ELSE "|") \o "<b>" \o document \o "</b>", "\n">>
      [] OTHER -> <<>>

\* what has reached the writer when the encoder of the case returns an error
EncodedUntilError(ow) ==
    IF ow.PlainMode /\ ow.OutputStyle = "yaml" THEN <<"---", "\n">> ELSE <<>>

\* an encoder is called, and so can fail, in the four cases of the switch only
CanFail(ow) == ow.OutputStyle \in {"json", "yaml"}

\* WriteInplace goes on to os.WriteFile also when w.write returned an error
afterWrite_IgnoresError(op, err) ==
    IF op = "WriteInplace" THEN "WriteFile" ELSE "returned"

\* where the caller of w.write goes once w.write returned err
afterWrite(op, err) ==
    IF err = "nil" /\ op = "WriteInplace" THEN "WriteFile" ELSE "returned"

\* what the caller of w.write returns when it returns right after w.write
returnAfter(err) == IF err = "nil" THEN Nil ELSE Error

OutputWriters ==
    {OutputWriter(p, r, FALSE, style) :
        p \in BOOLEAN, r \in BOOLEAN, style \in {"json", "yaml", "xml"}}

InitSink ==
    /\ outputWriter \in OutputWriters
    /\ fileBytes \in ListsUpTo(DocumentTexts, MaxDocuments)
    /\ call \in {[op |-> o, args |-> <<"filename">>] : o \in {"WriteInplace", "WriteToStdout"}}
    /\ pc = "LoadFile"
    /\ inputFile = <<>>
    /\ buf = <<>>
    /\ out = <<>>
    /\ writeErr = "none"
    /\ outcome = NotReturned
    /\ report = NoReport
    /\ result = Returns(NoReport)
    /\ fileDiffs = <<>>
    /\ opts = <<>>
    /\ compared = NoReport
    /\ stages = <<>>

untouchedBySink == <<report, call, result, opts, compared, stages, fileDiffs>>

\* w.PlainMode = true (WriteInplace only); inputFile, err := ytbx.LoadFile(filename)
write_LoadFile ==
    /\ pc = "LoadFile"
    /\ outputWriter' = IF call.op = "WriteInplace"
                       THEN [outputWriter EXCEPT !.PlainMode = TRUE]
                       ELSE outputWriter
    /\ IF LoadFile(fileBytes).err = "nil"
       THEN /\ inputFile' = LoadFile(fileBytes).Documents
            /\ pc' = "range"
            /\ UNCHANGED <<writeErr, outcome>>
       ELSE /\ writeErr' = "err"
            /\ pc' = afterWrite(call.op, "err")
            /\ outcome' = IF pc' = "returned" THEN returnAfter("err") ELSE outcome
            /\ UNCHANGED inputFile
    /\ UNCHANGED <<fileBytes, buf, out, untouchedBySink>>

\* one iteration of `for _, document := range inputFile.Documents`
write_Document ==
    /\ pc = "range"
    /\ inputFile # <<>>
    /\ LET document == IF outputWriter.Restructure
                       THEN RestructureObject(Head(inputFile))
                       ELSE Head(inputFile)
       IN  \E fails \in {f \in BOOLEAN : f => CanFail(outputWriter)} :
            LET written == IF fails THEN EncodedUntilError(outputWriter)
                           ELSE Encoded(outputWriter, document)
            IN  /\ buf' = IF call.op = "WriteInplace" THEN buf \o written ELSE buf
                /\ out' = IF call.op = "WriteToStdout" THEN out \o written ELSE out
                /\ IF fails
                   THEN /\ writeErr' = "err"
                        /\ pc' = afterWrite(call.op, "err")
                        /\ outcome' = IF pc' = "returned" THEN returnAfter("err") ELSE outcome
                        /\ UNCHANGED inputFile
                   ELSE /\ inputFile' = Tail(inputFile)
                        /\ UNCHANGED <<pc, writeErr, outcome>>
    /\ UNCHANGED <<outputWriter, fileBytes, untouchedBySink>>

\* the loop is over: w.write returns nil
write_Return ==
    /\ pc = "range"
    /\ inputFile = <<>>
    /\ writeErr' = "nil"
    /\ pc' = afterWrite(call.op, "nil")
    /\ outcome' = IF pc' = "returned" THEN returnAfter("nil") ELSE outcome
    /\ UNCHANGED <<outputWriter, fileBytes, inputFile, buf, out, untouchedBySink>>

\* the bytes an os.WriteFile that fails can leave in the file: the old ones
\* (the file was not opened), none (it was truncated), or a part of the new ones
LeftByFailedWrite(old, new) ==
    {old} \cup {SubSeq(new, 1, n) : n \in 0..(Len(new) - 1)}

\* bufWriter.Flush(); os.WriteFile(filename, buf.Bytes(), 0644)
WriteInplace_WriteFile ==
    /\ pc = "WriteFile"
    /\ \/ /\ fileBytes' = buf
          /\ outcome' = Nil
       \/ /\ fileBytes' \in LeftByFailedWrite(fileBytes, buf)
          /\ outcome' = Error
    /\ pc' = "returned"
    /\ UNCHANGED <<outputWriter, inputFile, buf, out, writeErr, untouchedBySink>>

NextSink ==
    \/ write_LoadFile
    \/ write_Document
    \/ write_Return
    \/ WriteInplace_WriteFile

SpecSink == InitSink /\ [][NextSink]_vars

----------------------------------------------------------------------------
(* Properties of the OutputWriter (SpecSink) *)

\* the output of all the documents, none of them failing
RECURSIVE WholeOutput(_, _)
WholeOutput(ow, documents) ==
    IF documents = <<>> THEN <<>>
    ELSE Encoded(ow, IF ow.Restructure THEN RestructureObject(Head(documents))
                     ELSE Head(documents))
         \o WholeOutput(ow, Tail(documents))

\* C11: WriteInplace changes the bytes of the file in its os.WriteFile step
\* only, which it takes only after w.write returned nil with the whole output
\* of every document in the buffer; when loading or encoding a document fails,
\* WriteInplace returns an error and the step leaves the file's bytes as they are.
C11_InplaceWritesOnlyAfterRender ==
    [][call.op = "WriteInplace" =>
        /\ fileBytes' # fileBytes =>
                /\ pc = "WriteFile"
                /\ writeErr = "nil"
                /\ buf = WholeOutput(outputWriter, LoadFile(fileBytes).Documents)
        /\ writeErr' = "err" =>
                /\ fileBytes' = fileBytes
                /\ pc' = "returned"
                /\ outcome' = Error]_vars

\* WriteInplace failed on the second document, with the first one and the
\* start of the second in the buffer, and the file is as it was
C11_Witness ==
    /\ call.op = "WriteInplace" /\ pc = "returned"
    /\ writeErr = "err" /\ outcome = Error
    /\ Len(inputFile) = 1 /\ Len(buf) > 4
    /\ fileBytes = <<"{a: 1}", "{spec: 1, kind: A}">>

----------------------------------------------------------------------------
(* Properties of the between command (Spec) *)

CodeOrder ==
    <<"Filter", "FilterRegexp", "Exclude", "ExcludeRegexp", "FilterDocument",
      "FilterDocumentRegexp", "ExcludeDocument", "ExcludeDocumentRegexp",
      "IgnoreValueChanges", "IgnoreNewDocuments">>

DocumentedOrder ==
    <<"Filter", "Exclude", "FilterRegexp", "ExcludeRegexp", "FilterDocument",
      "ExcludeDocument", "FilterDocumentRegexp", "ExcludeDocumentRegexp",
      "IgnoreValueChanges", "IgnoreNewDocuments">>

\* the stages of `order` whose option is set
WantedIn(order) == SelectSeq(order, LAMBDA st : Wanted(st, opts))

\* the arguments the command passes to `stage`
ArgsFor(stage, o) ==
    CASE stage = "Filter"                -> o.Filters.items
      [] stage = "FilterRegexp"          -> o.FilterRegexps.items
      [] stage = "Exclude"               -> o.Excludes.items
      [] stage = "ExcludeRegexp"         -> o.ExcludeRegexps.items
      [] stage = "FilterDocument"        -> o.FilterDocuments.items
      [] stage = "FilterDocumentRegexp"  -> o.FilterDocumentRegexps.items
      [] stage = "ExcludeDocument"       -> o.ExcludeDocuments.items
      [] stage = "ExcludeDocumentRegexp" -> o.ExcludeDocumentRegexps.items
      [] OTHER                           -> <<>>

\* ret after the calls of `calls`, each made on what the one before returned
RECURSIVE Chain(_, _)
Chain(ret, calls) ==
    IF calls = <<>> THEN ret
    ELSE Chain(AndThen(ret, Head(calls), ArgsFor(Head(calls), opts)), Tail(calls))

IsPrefix(a, b) == Len(a) <= Len(b) /\ SubSeq(b, 1, Len(a)) = a

Rendering == writeErr # "none" \/ out # <<>>

\* C4 (as amended): the between command makes the post-processing calls whose
\* options are set in the order Filter, FilterRegexp, Exclude, ExcludeRegexp,
\* FilterDocument, FilterDocumentRegexp, ExcludeDocument,
\* ExcludeDocumentRegexp, IgnoreValueChanges, IgnoreNewDocuments, each on the
\* Report the one before returned, and the renderer runs only after the last.
C4_StagesInCodeOrder ==
    /\ IsPrefix(stages, WantedIn(CodeOrder))
    /\ (pc = "writeReport" \/ Rendering) => stages = WantedIn(CodeOrder)
    /\ outcome # Panic => Returns(report) = Chain(Returns(compared), stages)
    /\ Rendering => pc = "done"

\* FilterRegexp ran before Exclude, Exclude dropped a diff, and the report was rendered
C4_Witness ==
    /\ pc = "done"
    /\ stages = <<"FilterRegexp", "Exclude">>
    /\ Len(compared.Diffs) = 2 /\ Len(report.Diffs) = 1
    /\ writeErr = "nil"

\* C4 as stated: the calls are made in the order Filter, Exclude, FilterRegexp,
\* ExcludeRegexp, FilterDocument, ExcludeDocument, FilterDocumentRegexp,
\* ExcludeDocumentRegexp, IgnoreValueChanges, IgnoreNewDocuments.
C4_StagesInDocumentedOrder ==
    /\ IsPrefix(stages, WantedIn(DocumentedOrder))
    /\ (pc = "writeReport" \/ Rendering) => stages = WantedIn(DocumentedOrder)
    /\ outcome # Panic => Returns(report) = Chain(Returns(compared), stages)
    /\ Rendering => pc = "done"

\* the command calls `stage` with a pattern that does not compile
BadPattern(stage) == Wanted(stage, opts) /\ ~allCompile(ArgsFor(stage, opts))

\* C13: each of the four regexp operations, called on the command's Report
\* (also one with no Diffs) with a pattern list that holds an uncompilable
\* pattern, panics and returns no Report; and when the command is given such a
\* list, it ends in that panic, at the first stage that has one, and no
\* renderer is reached or writes anything.
C13_BadPatternIsFatal ==
    /\ \A op \in RegexpStages : \A pattern \in PathPatternLists \cup DocumentPatternLists :
            ~allCompile(pattern) => Invoke(op, report, pattern) = Panics
    /\ (\E stage \in RegexpStages : BadPattern(stage)) =>
            /\ ~Rendering
            /\ pc # "writeReport"
            /\ pc = "done" =>
                    /\ outcome = Panic
                    /\ BadPattern(stages[Len(stages)])
                    /\ \A i \in 1..(Len(stages) - 1) : ~BadPattern(stages[i])

\* the comparison found no differences, --filter-regexp has a pattern that
\* does not compile: the command panicked in FilterRegexp with nothing written
C13_Witness ==
    /\ pc = "done" /\ outcome = Panic
    /\ compared.Diffs = <<>>
    /\ opts.FilterRegexps = Slice(<<"(">>)
    /\ stages[Len(stages)] = "FilterRegexp"
    /\ out = <<>>

\* C16: the calls the command makes, in the order of its code, end as the
\* same calls made in the documented order (Filter, Exclude, FilterRegexp,
\* ExcludeRegexp, FilterDocument, ExcludeDocument, FilterDocumentRegexp,
\* ExcludeDocumentRegexp, IgnoreValueChanges, IgnoreNewDocuments) would: the
\* Report handed to the renderer is the one the documented order returns, and
\* the command panics on an uncompilable pattern exactly when the documented
\* order does.
C16_CodeOrderEquivalentToDocumented ==
    LET documented == Chain(Returns(compared), WantedIn(DocumentedOrder))
    IN  /\ pc = "writeReport" => documented = Returns(report)
        /\ pc = "done" =>
                IF outcome = Panic THEN documented.panic
                ELSE documented = Returns(report)

\* FilterRegexp dropped one diff and Exclude, called after it, the other one;
\* called first, each would have returned a different single diff
C16_Witness ==
    /\ pc = "done" /\ writeErr = "nil"
    /\ stages = <<"FilterRegexp", "Exclude">>
    /\ Len(compared.Diffs) = 2 /\ report.Diffs = <<>>
    /\ Len(Exclude(compared, opts.Excludes.items).Diffs) = 1
    /\ FilterRegexp(compared, opts.FilterRegexps.items).report.Diffs
            # Exclude(compared, opts.Excludes.items).Diffs

\* C10: after a successful render writeReport returns exit code 0 for an empty
\* and 1 for a non-empty post-filter Report when gating is enabled and nil when
\* it is disabled; an unknown style or a failed WriteReport gives an ordinary
\* error, never an exit-code value.
C10_ExitStatusGating ==
    (pc = "done" /\ outcome # Panic) =>
        /\ (writeErr = "nil" /\ opts.ExitWithCode) =>
                outcome = ErrorWithExitCode(IF report.Diffs = <<>> THEN 0 ELSE 1)
        /\ (writeErr = "nil" /\ ~opts.ExitWithCode) => outcome = Nil
        /\ writeErr # "nil" => outcome = Error

\* gating enabled, a filter stage dropped a diff, one is left: exit code 1
C10_Witness ==
    /\ pc = "done"
    /\ opts.ExitWithCode
    /\ writeErr = "nil"
    /\ Len(compared.Diffs) = 2 /\ Len(report.Diffs) = 1
    /\ outcome = ErrorWithExitCode(1)

====
